---- MODULE Spec2Model ----
(***************************************************************************)
(* Model of ultra_fast_port_scanner.py: main's validation and clamping,    *)
(* batch_ports, fast_scan's thread pool, port_scan_worker and the          *)
(* connect poll of scan_port, appending to the process-wide scan_results.  *)
(* Durations are in hundredths of a second.                                *)
(***************************************************************************)
EXTENDS Integers, Sequences, FiniteSets, TLC

\* ---------------------------------------------------------------- bounds
LastPort == 21     \* highest port of the modelled listeners
MaxRange == 2      \* longest port range that is scanned
MaxElapsed == 1    \* polls that the clock resolves one sleep at a time
MaxRuns == 2       \* invocations of main in one process
MaxB == 5          \* batch_ports alone: longest range
MaxBatch == 4      \* batch_ports alone: largest batch size

\* ------------------------------------------------------ program constants
MaxPortNumber == 65535
MinThreads == 1
MaxThreads == 500
MinTimeout == 10
MaxTimeout == 500
SleepStep == 1

COMMON_PORTS ==
    (21 :> "FTP") @@ (22 :> "SSH") @@ (23 :> "Telnet") @@ (25 :> "SMTP") @@
    (53 :> "DNS") @@ (80 :> "HTTP") @@ (110 :> "POP3") @@ (143 :> "IMAP") @@
    (443 :> "HTTPS") @@ (445 :> "SMB") @@ (993 :> "IMAPS") @@
    (995 :> "POP3S") @@ (1433 :> "MSSQL") @@ (1521 :> "Oracle") @@
    (3306 :> "MySQL") @@ (3389 :> "RDP") @@ (5432 :> "PostgreSQL") @@
    (5900 :> "VNC") @@ (6379 :> "Redis") @@ (8080 :> "HTTP-Alt") @@
    (8443 :> "HTTPS-Alt") @@ (27017 :> "MongoDB") @@ (11211 :> "Memcached")

\* COMMON_PORTS.get(port, 'Unknown')
ServiceOf(port) ==
    IF port \in DOMAIN COMMON_PORTS THEN COMMON_PORTS[port] ELSE "Unknown"

\* ------------------------------------------------------------ batch_ports
\* list(range(a, b))
PyRange(a, b) == [i \in 1..(IF b > a THEN b - a ELSE 0) |-> a + i - 1]

\* the slice taken one element too long
PySlice_Overlap(s, i, j) ==
    IF i >= Len(s) THEN << >>
    ELSE SubSeq(s, i + 1, IF j + 1 < Len(s) THEN j + 1 ELSE Len(s))

\* s[i:j] for 0 <= i, Python clamps j to len(s)
PySlice(s, i, j) ==
    IF i >= Len(s) THEN << >>
    ELSE SubSeq(s, i + 1, IF j < Len(s) THEN j ELSE Len(s))

\* the count rounded down: the short last batch is dropped
StepCount_Floor(n, step) == n \div step

\* number of elements of range(0, n, step) for step >= 1
StepCount(n, step) == (n + step - 1) \div step

\* range(0, len(ports), batch_size) raises ValueError when batch_size is 0
BatchRaises(batch_size) == batch_size = 0

\* [ports[i:i + batch_size] for i in range(0, len(ports), batch_size)]
batch_ports(start, end, batch_size) ==
    LET ports == PyRange(start, end + 1)
        n == IF batch_size > 0 THEN StepCount(Len(ports), batch_size) ELSE 0
    IN [k \in 1..n |->
          PySlice(ports, (k - 1) * batch_size, (k - 1) * batch_size + batch_size)]

\* max_threads // 2
BatchSizeOf(max_threads) == max_threads \div 2

\* ------------------------------------------------------------- arguments
\* a float is NaN or a number of hundredths of a second
Num(v) == [nan |-> FALSE, v |-> v]
NaN == [nan |-> TRUE, v |-> 0]
\* a < b on floats: every comparison with NaN is false
FLt(a, b) == ~a.nan /\ ~b.nan /\ a.v < b.v
\* Python's min(a, b) and max(a, b): the first argument unless the second wins
PyMin(a, b) == IF FLt(b, a) THEN b ELSE a
PyMax(a, b) == IF FLt(a, b) THEN b ELSE a

\* max(min(args.timeout, 5.0), 0.1)
ClampTimeout(t) == PyMax(PyMin(t, Num(MaxTimeout)), Num(MinTimeout))

IMin(a, b) == IF b < a THEN b ELSE a
IMax(a, b) == IF b > a THEN b ELSE a
\* min(max(args.threads, 1), 500)
ClampThreads(n) == IMin(IMax(n, MinThreads), MaxThreads)

\* a piece of args.ports between two '-': int(piece) succeeds or raises
Tok(n) == [numeric |-> TRUE, val |-> n]
BadTok == [numeric |-> FALSE, val |-> 0]

\* lines 139-146: the ValueError of int() or of unpacking other than 2 pieces
ParseRaises(fields) ==
    \/ Len(fields) > 2
    \/ \E i \in 1..Len(fields) : ~fields[i].numeric

ParsedStart(fields) == fields[1].val
ParsedEnd(fields) == fields[Len(fields)].val

\* the check without its upper bound
RangeOK_NoUpper(start_port, end_port) ==
    ~(start_port < 1 \/ start_port > end_port)

\* line 147, negated
RangeOK(start_port, end_port) ==
    ~(start_port < 1 \/ end_port > MaxPortNumber \/ start_port > end_port)

\* validate_ip: inet_pton succeeds for AF_INET or for AF_INET6
validate_ip(ip) == ip \in {"v4", "v6"}

PortValues == {0, MaxPortNumber, MaxPortNumber + 1}
                  \cup ((LastPort - MaxRange + 1)..LastPort)
Toks == {BadTok} \cup {Tok(n) : n \in PortValues}

\* the ports a port specification asks for, when it parses
RequestedPorts(fields) ==
    IF ParseRaises(fields) THEN {}
    ELSE ParsedStart(fields)..ParsedEnd(fields)

PortSpecs ==
    {f \in {<<a, b>> : a \in Toks, b \in Toks}
             \cup {<<a>> : a \in {BadTok, Tok(0), Tok(LastPort),
                                  Tok(MaxPortNumber + 1)}}
             \cup {<<Tok(LastPort), Tok(LastPort), Tok(LastPort)>>} :
        Cardinality(RequestedPorts(f)) <= MaxRange}

IpInputs == {"v4", "v6", "bad"}
ThreadInputs == {0, 1, 2, 4, 501}
TimeoutInputs == {NaN, Num(5), Num(30), Num(501)}
ListenerKinds == {"open", "refused", "filtered"}

\* ------------------------------------------------------------------ state
VARIABLES
    pc,            \* main's position
    run,           \* which invocation of main in this process
    args,          \* sys.argv as parsed by parse_arguments
    listeners,     \* what answers on each requested port (fixed)
    diag,          \* the logging.error of main, or "none"
    start_port, end_port,
    max_threads,   \* args.threads after line 150
    timeout,       \* args.timeout after line 151
    port_batches,  \* fast_scan's local
    futures,       \* per batch: "pending", "running" or "done"
    work_queue,    \* the executor's queue, batch indexes
    idle_semaphore,\* the executor's count of idle threads
    workers,       \* the executor's threads
    scan_results,  \* the module-level list
    results_lock,  \* 0, or the worker holding the lock
    saved,         \* what save_results wrote
    open_ports,    \* the summary of line 159
    base,          \* history: len(scan_results) when fast_scan was entered
    probes,        \* history: calls of scan_port per port, this invocation
    connected,     \* history: ports whose connect_ex returned 0
    nreturned,     \* history: probes that returned a record
    raised,        \* history: ports whose probe raised an exception
    reads          \* history: per port, the banner read of this invocation

vars == <<pc, run, args, listeners, diag, start_port, end_port, max_threads,
          timeout, port_batches, futures, work_queue, idle_semaphore, workers,
          scan_results, results_lock, saved, open_ports, base, probes,
          connected, nreturned, raised, reads>>

mainVars == <<start_port, end_port, max_threads, timeout>>
poolVars == <<port_batches, futures, work_queue, idle_semaphore, workers>>
histVars == <<base, probes, connected, nreturned, raised, reads>>
outVars == <<saved, open_ports>>

\* what connect_ex gives on a non-blocking socket: the errno ("0" for 0)
\* and the state the socket is left in
ConnectEx(conn, kind) ==
    IF conn = "unconnected"
    THEN {[errno |-> "EINPROGRESS", conn |-> "inprogress"]}
    ELSE {[errno |-> "EALREADY", conn |-> "inprogress"]}
         \cup (IF kind = "open"
               THEN {[errno |-> "0", conn |-> "connected"]} ELSE {})
         \cup (IF kind = "refused"
               THEN {[errno |-> "ECONNREFUSED", conn |-> "unconnected"]}
               ELSE {})

\* every errno but "still connecting" taken for success
IsReady_NotPending(errno) == errno \notin {"EALREADY", "EINPROGRESS"}

\* ready = sock.connect_ex((ip, port)) == 0
IsReady(errno) == errno = "0"

\* while time.time() - start < timeout
PollGuard(elapsed, t) == elapsed < t.v

\* a clock that stands still: the sleep is lost
Advance_NoSleep(elapsed, t) == {elapsed}

\* time.time() - start after time.sleep(0.01): one step, or past the deadline
Advance(elapsed, t) ==
    (IF elapsed + SleepStep <= MaxElapsed /\ elapsed + SleepStep < t.v
     THEN {elapsed + SleepStep} ELSE {}) \cup {t.v}

\* sock.settimeout(timeout) raises ValueError for NaN
SetTimeoutRaises(t) == t.nan

\* what sock.recv(1024) under the 1 s timeout does: bytes arrive, the
\* timeout expires, or the read fails
RecvOutcomes == {"data", "timeout", "error"}

\* a get_banner without its except clause
get_banner_Propagate(outcome) ==
    IF outcome = "data" THEN [raised |-> FALSE, text |-> "READY"]
    ELSE [raised |-> TRUE, text |-> ""]

\* get_banner: the stripped text, or "" on any error; it never raises
get_banner(outcome) ==
    IF outcome = "data" THEN [raised |-> FALSE, text |-> "READY"]
    ELSE [raised |-> FALSE, text |-> ""]

\* a banner read on every open port
ReadsBanner_Always(service) == TRUE

\* a banner read only when --banner was given
ReadsBanner_OnFlag(service) == args.banner /\ service # "Unknown"

\* line 71: get_banner(sock) if service != 'Unknown' else ''
ReadsBanner(service) == service # "Unknown"

\* the dict scan_port returns (timestamp left out)
Record(ip, port, service, banner) ==
    [ip |-> ip, port |-> port, status |-> "open", service |-> service,
     banner |-> banner]

\* if result:
Truthy(result) == result # << >>

\* the append that overwrites the last slot, as a lost update would
ListAppend_Overwrite(results, result) ==
    IF results = << >> THEN <<result>>
    ELSE [results EXCEPT ![Len(results)] = result]

\* results.append(result)
ListAppend(results, result) == Append(results, result)

RECURSIVE Insert(_, _)
Insert(x, s) ==
    IF s = << >> THEN <<x>>
    ELSE IF x <= Head(s) THEN <<x>> \o s
    ELSE <<Head(s)>> \o Insert(x, Tail(s))

RECURSIVE Sorted(_)
\* sorted(list)
Sorted(s) == IF s = << >> THEN << >> ELSE Insert(Head(s), Sorted(Tail(s)))

PortsOf(results) == [i \in 1..Len(results) |-> results[i].port]

\* a socket that outlives its with block
CloseSocket_Leak(me) == me

\* line 52: leaving the with block, by return or by exception, closes sock
CloseSocket(me) == [me EXCEPT !.sock = FALSE, !.conn = "none"]

\* the exception leaves port_scan_worker: the rest of the batch is skipped
OnProbeError_Propagate(me) ==
    [CloseSocket(me) EXCEPT !.pc = "for", !.ports = << >>, !.elapsed = 0,
                            !.ready = FALSE, !.result = << >>]

\* lines 80-82: the exception is logged, the socket is closed by the with
\* block, scan_port returns None and the worker goes on with its batch
OnProbeError(me) ==
    [CloseSocket(me) EXCEPT !.pc = "for", !.elapsed = 0, !.ready = FALSE,
                            !.result = << >>]

\* the executor's thread removes the call it takes from the queue
Dequeue(queue) == Tail(queue)

IdleWorker ==
    [pc |-> "idle", batch |-> 0, ports |-> << >>, port |-> 0, sock |-> FALSE,
     conn |-> "none", elapsed |-> 0, ready |-> FALSE, result |-> << >>]

\* the process as main is entered with sys.argv parsed into args: nothing
\* scanned yet, the module-level scan_results empty and its lock free
Start ==
    /\ pc = "start"
    /\ run = 1
    /\ listeners \in [RequestedPorts(args.ports) -> ListenerKinds]
    /\ diag = "none"
    /\ start_port = 0 /\ end_port = 0
    /\ max_threads = 0
    /\ timeout = Num(0)
    /\ port_batches = << >>
    /\ futures = << >>
    /\ work_queue = << >>
    /\ idle_semaphore = 0
    /\ workers = << >>
    /\ scan_results = << >>
    /\ results_lock = 0
    /\ saved = << >>
    /\ open_ports = << >>
    /\ base = 0
    /\ probes = [p \in {} |-> 0]
    /\ connected = {}
    /\ nreturned = 0
    /\ raised = {}
    /\ reads = [p \in {} |-> "none"]

Init ==
    /\ args \in [ip : IpInputs, ports : PortSpecs, threads : ThreadInputs,
                 timeout : TimeoutInputs]
    /\ Start

\* ------------------------------------------------------------------- main
\* lines 135-138
MainValidateIp ==
    /\ pc = "start"
    /\ IF validate_ip(args.ip)
       THEN pc' = "ports" /\ diag' = diag
       ELSE pc' = "returned" /\ diag' = "Invalid IP address"
    /\ UNCHANGED <<run, args, listeners, mainVars, poolVars, scan_results,
                   results_lock, outVars, histVars>>

\* lines 139-146
MainParsePorts ==
    /\ pc = "ports"
    /\ IF ParseRaises(args.ports)
       THEN /\ pc' = "returned"
            /\ diag' = "Invalid port range"
            /\ UNCHANGED <<start_port, end_port>>
       ELSE /\ pc' = "range"
            /\ start_port' = ParsedStart(args.ports)
            /\ end_port' = ParsedEnd(args.ports)
            /\ diag' = diag
    /\ UNCHANGED <<run, args, listeners, max_threads, timeout, poolVars,
                   scan_results, results_lock, outVars, histVars>>

\* lines 147-149
MainCheckRange ==
    /\ pc = "range"
    /\ IF RangeOK(start_port, end_port)
       THEN pc' = "clamp" /\ diag' = diag
       ELSE pc' = "returned" /\ diag' = "Invalid port range (1-65535)"
    /\ UNCHANGED <<run, args, listeners, mainVars, poolVars, scan_results,
                   results_lock, outVars, histVars>>

\* lines 150-154
MainClamp ==
    /\ pc = "clamp"
    /\ max_threads' = ClampThreads(args.threads)
    /\ timeout' = ClampTimeout(args.timeout)
    /\ pc' = "call"
    /\ UNCHANGED <<run, args, listeners, diag, start_port, end_port, poolVars,
                   scan_results, results_lock, outVars, histVars>>

\* -------------------------------------------------------------- fast_scan
\* line 155 and line 108
FastScanEnter ==
    /\ pc = "call"
    /\ base' = Len(scan_results)
    /\ probes' = [p \in start_port..end_port |-> 0]
    /\ connected' = {}
    /\ nreturned' = 0
    /\ raised' = {}
    /\ reads' = [p \in start_port..end_port |-> "none"]
    /\ IF BatchRaises(BatchSizeOf(max_threads))
       THEN pc' = "crashed" /\ UNCHANGED port_batches
       ELSE /\ port_batches' =
                  batch_ports(start_port, end_port, BatchSizeOf(max_threads))
            /\ pc' = IF port_batches' = << >> THEN "wait" ELSE "submit"
    /\ futures' = << >>
    /\ UNCHANGED <<run, args, listeners, diag, mainVars, work_queue,
                   idle_semaphore, workers, scan_results, results_lock,
                   outVars>>

\* a pool that starts a thread for every call
MaySpawn_Unbounded(ws, max_workers) == TRUE

\* ThreadPoolExecutor(max_workers=max_threads): no thread beyond max_workers
MaySpawn(ws, max_workers) == Len(ws) < max_workers

\* lines 111-114: executor.submit queues the batch and starts a thread when
\* none is idle and fewer than max_workers exist
Submit ==
    /\ pc = "submit"
    /\ LET k == Len(futures) + 1 IN
        /\ futures' = Append(futures, "pending")
        /\ work_queue' = Append(work_queue, k)
        /\ pc' = IF k = Len(port_batches) THEN "wait" ELSE "submit"
    /\ IF idle_semaphore > 0
       THEN idle_semaphore' = idle_semaphore - 1 /\ UNCHANGED workers
       ELSE /\ UNCHANGED idle_semaphore
            /\ workers' = IF MaySpawn(workers, max_threads)
                          THEN Append(workers, IdleWorker) ELSE workers
    /\ UNCHANGED <<run, args, listeners, diag, mainVars, port_batches,
                   scan_results, results_lock, outVars, histVars>>

AllDone == \A k \in 1..Len(futures) : futures[k] = "done"

\* returning as soon as every batch is submitted
WaitOver_NoWait(fs, ws) == TRUE

\* concurrent.futures.wait(futures) has returned and the with block has
\* joined the executor's threads
WaitOver(fs, ws) ==
    /\ \A k \in 1..Len(fs) : fs[k] = "done"
    /\ \A w \in 1..Len(ws) : ws[w].pc = "idle"

\* line 115 and the exit of the with block: wait for the futures, join
Wait ==
    /\ pc = "wait"
    /\ WaitOver(futures, workers)
    /\ pc' = "scanned"
    /\ workers' = << >>
    /\ work_queue' = << >>
    /\ idle_semaphore' = 0
    /\ UNCHANGED <<run, args, listeners, diag, mainVars, port_batches,
                   futures, scan_results, results_lock, outVars, histVars>>

\* lines 156-163
MainReport ==
    /\ pc = "scanned"
    /\ IF scan_results # << >>
       THEN /\ saved' = scan_results
            /\ open_ports' = Sorted(PortsOf(scan_results))
       ELSE UNCHANGED <<saved, open_ports>>
    /\ pc' = "returned"
    /\ UNCHANGED <<run, args, listeners, diag, mainVars, poolVars,
                   scan_results, results_lock, histVars>>

\* main is called again in the same process: sys.argv and the module-level
\* scan_results are what they were
MainAgain ==
    /\ pc = "returned"
    /\ run < MaxRuns
    /\ run' = run + 1
    /\ pc' = "start"
    /\ diag' = "none"
    /\ start_port' = 0 /\ end_port' = 0
    /\ max_threads' = 0
    /\ timeout' = Num(0)
    /\ port_batches' = << >>
    /\ futures' = << >>
    /\ base' = Len(scan_results)
    /\ probes' = [p \in {} |-> 0]
    /\ connected' = {}
    /\ nreturned' = 0
    /\ raised' = {}
    /\ reads' = [p \in {} |-> "none"]
    /\ UNCHANGED <<args, listeners, work_queue, idle_semaphore, workers,
                   scan_results, results_lock, outVars>>

\* ----------------------------------------------------------------- workers
\* the executor's thread takes the next queued call of port_scan_worker
WorkerTake(w) ==
    /\ workers[w].pc = "idle"
    /\ work_queue # << >>
    /\ LET k == Head(work_queue) IN
        /\ futures' = [futures EXCEPT ![k] = "running"]
        /\ workers' = [workers EXCEPT ![w] =
              [IdleWorker EXCEPT !.pc = "for", !.batch = k,
                                 !.ports = port_batches[k]]]
    /\ work_queue' = Dequeue(work_queue)
    /\ UNCHANGED <<pc, run, args, listeners, diag, mainVars, port_batches,
                   idle_semaphore, scan_results, results_lock, outVars,
                   histVars>>

\* line 94 exhausted: port_scan_worker returns, the future is done
WorkerDone(w) ==
    /\ workers[w].pc = "for"
    /\ workers[w].ports = << >>
    /\ futures' = [futures EXCEPT ![workers[w].batch] = "done"]
    /\ idle_semaphore' = idle_semaphore + 1
    /\ workers' = [workers EXCEPT ![w] = IdleWorker]
    /\ UNCHANGED <<pc, run, args, listeners, diag, mainVars, port_batches,
                   work_queue, scan_results, results_lock, outVars, histVars>>

\* lines 94-95 and 51-60: next port; scan_port opens its socket and starts
\* the connect, which raises BlockingIOError (passed). Any other exception
\* (settimeout on NaN, no socket to be had, an unreachable network, an IPv6
\* literal on the AF_INET socket) is caught at line 80: scan_port returns None
WorkerNext(w) ==
    /\ workers[w].pc = "for"
    /\ workers[w].ports # << >>
    /\ LET port == Head(workers[w].ports)
           next == [workers[w] EXCEPT !.ports = Tail(@), !.port = port]
       IN
        /\ probes' = [probes EXCEPT ![port] = @ + 1]
        /\ \/ /\ ~SetTimeoutRaises(timeout)
              /\ args.ip = "v4"
              /\ workers' = [workers EXCEPT ![w] =
                    [next EXCEPT !.pc = "poll", !.sock = TRUE,
                                 !.conn = "inprogress", !.elapsed = 0,
                                 !.ready = FALSE]]
              /\ UNCHANGED raised
           \/ /\ workers' = [workers EXCEPT ![w] =
                    OnProbeError([next EXCEPT !.sock = TRUE])]
              /\ raised' = raised \cup {port}
    /\ UNCHANGED <<pc, run, args, listeners, diag, mainVars, port_batches,
                   futures, work_queue, idle_semaphore, scan_results,
                   results_lock, outVars, base, connected, nreturned, reads>>

\* lines 61-68, one turn of the loop; lines 69 and 82 when it ends unready
WorkerPoll(w) ==
    /\ workers[w].pc = "poll"
    /\ LET me == workers[w] IN
       IF PollGuard(me.elapsed, timeout)
       THEN \E r \in ConnectEx(me.conn, listeners[me.port]) :
              IF IsReady(r.errno)
              THEN /\ workers' = [workers EXCEPT ![w] =
                        [me EXCEPT !.pc = "ready", !.conn = r.conn,
                                   !.ready = TRUE]]
                   /\ connected' = IF r.errno = "0"
                                   THEN connected \cup {me.port}
                                   ELSE connected
              ELSE /\ \E e \in Advance(me.elapsed, timeout) :
                        workers' = [workers EXCEPT ![w] =
                           [me EXCEPT !.conn = r.conn, !.elapsed = e]]
                   /\ connected' = IF r.errno = "0"
                                   THEN connected \cup {me.port}
                                   ELSE connected
       ELSE /\ workers' = [workers EXCEPT ![w] =
                 [CloseSocket(me) EXCEPT !.pc = "for", !.elapsed = 0]]
            /\ UNCHANGED connected
    /\ UNCHANGED <<pc, run, args, listeners, diag, mainVars, port_batches,
                   futures, work_queue, idle_semaphore, scan_results,
                   results_lock, outVars, base, probes, nreturned, raised,
                   reads>>

\* lines 69-79 and 95-96: the service is looked up, the banner is read for
\* a known service, the record is built, the socket closed, and the worker
\* goes for the lock; an exception of the banner read would be caught at
\* line 80
WorkerReady(w) ==
    /\ workers[w].pc = "ready"
    /\ LET me == workers[w]
           service == ServiceOf(me.port)
       IN \E outcome \in IF ReadsBanner(service) THEN RecvOutcomes
                                                 ELSE {"none"} :
            LET b == IF outcome = "none" THEN [raised |-> FALSE, text |-> ""]
                     ELSE get_banner(outcome)
                result == <<Record(args.ip, me.port, service, b.text)>>
            IN /\ reads' = [reads EXCEPT ![me.port] =
                              CASE outcome = "none" -> "none"
                                [] outcome = "data" -> "ok"
                                [] OTHER -> "failed"]
               /\ IF b.raised
                  THEN /\ workers' = [workers EXCEPT ![w] = OnProbeError(me)]
                       /\ raised' = raised \cup {me.port}
                       /\ UNCHANGED nreturned
                  ELSE /\ workers' = [workers EXCEPT ![w] =
                            [CloseSocket(me) EXCEPT
                               !.pc = IF Truthy(result) THEN "acquire"
                                                        ELSE "for",
                               !.elapsed = 0, !.ready = FALSE,
                               !.result = result]]
                       /\ nreturned' = nreturned + 1
                       /\ UNCHANGED raised
    /\ UNCHANGED <<pc, run, args, listeners, diag, mainVars, port_batches,
                   futures, work_queue, idle_semaphore, scan_results,
                   results_lock, outVars, base, probes, connected>>

\* an append that does not wait for the lock
LockFree_Ignored(lock) == TRUE

\* threading.Lock: acquire goes through only while nobody holds the lock
LockFree(lock) == lock = 0

\* a with block that keeps the lock on the way out
Release_Kept(lock) == lock

\* leaving the with block of line 97 releases the lock
Release(lock) == 0

\* line 97: with results_lock
WorkerAcquire(w) ==
    /\ workers[w].pc = "acquire"
    /\ LockFree(results_lock)
    /\ results_lock' = w
    /\ workers' = [workers EXCEPT ![w].pc = "locked"]
    /\ UNCHANGED <<pc, run, args, listeners, diag, mainVars, port_batches,
                   futures, work_queue, idle_semaphore, scan_results,
                   outVars, histVars>>

\* lines 98-99: append, leave the with block, log
WorkerAppend(w) ==
    /\ workers[w].pc = "locked"
    /\ scan_results' = ListAppend(scan_results, workers[w].result[1])
    /\ results_lock' = Release(results_lock)
    /\ workers' = [workers EXCEPT ![w] =
          [@ EXCEPT !.pc = "for", !.result = << >>]]
    /\ UNCHANGED <<pc, run, args, listeners, diag, mainVars, port_batches,
                   futures, work_queue, idle_semaphore, outVars, histVars>>

\* one invocation of main, with any arguments
Next ==
    \/ MainValidateIp
    \/ MainParsePorts
    \/ MainCheckRange
    \/ MainClamp
    \/ FastScanEnter
    \/ Submit
    \/ Wait
    \/ MainReport
    \/ \E w \in 1..Len(workers) : WorkerTake(w)
    \/ \E w \in 1..Len(workers) : WorkerDone(w)
    \/ \E w \in 1..Len(workers) : WorkerNext(w)
    \/ \E w \in 1..Len(workers) : WorkerPoll(w)
    \/ \E w \in 1..Len(workers) : WorkerReady(w)
    \/ \E w \in 1..Len(workers) : WorkerAcquire(w)
    \/ \E w \in 1..Len(workers) : WorkerAppend(w)

Spec == Init /\ [][Next]_vars

\* the threads of the pool and the main thread are each scheduled again
\* and again by the operating system
WorkerStep(w) ==
    /\ w <= Len(workers)
    /\ \/ WorkerTake(w)
       \/ WorkerDone(w)
       \/ WorkerNext(w)
       \/ WorkerPoll(w)
       \/ WorkerReady(w)
       \/ WorkerAcquire(w)
       \/ WorkerAppend(w)

MainStep ==
    \/ MainValidateIp
    \/ MainParsePorts
    \/ MainCheckRange
    \/ MainClamp
    \/ FastScanEnter
    \/ Submit
    \/ Wait
    \/ MainReport

Fairness ==
    /\ WF_vars(MainStep)
    /\ \A w \in 1..MaxRange : WF_vars(WorkerStep(w))

\* one invocation of main under that scheduling, with arguments that pass
\* the validation
FairArgs ==
    {a \in [ip : {"v4"}, ports : PortSpecs, threads : ThreadInputs,
             timeout : {NaN, Num(30)}] :
        /\ ~ParseRaises(a.ports)
        /\ RangeOK(ParsedStart(a.ports), ParsedEnd(a.ports))}

FairInit ==
    /\ args \in FairArgs
    /\ Init

FairSpec == FairInit /\ [][Next]_vars /\ Fairness

\* one invocation of main on a range that makes more batches than the pool
\* has threads: MaxRange + 1 ports in batches of one port for two threads
PoolArgs ==
    [ip : {"v4"}, ports : {<<Tok(LastPort - MaxRange), Tok(LastPort)>>},
     threads : {2}, timeout : {Num(30)}]

PoolInit ==
    /\ args \in PoolArgs
    /\ Start

SpecPool == PoolInit /\ [][Next]_vars

\* one invocation of main with and without --banner (line 131, store_true),
\* the other arguments passing the validation
FlagArgs ==
    {a \in [ip : {"v4"}, ports : PortSpecs, threads : {2, 501},
             timeout : {Num(30)}, banner : BOOLEAN] :
        /\ ~ParseRaises(a.ports)
        /\ RangeOK(ParsedStart(a.ports), ParsedEnd(a.ports))}

FlagInit ==
    /\ args \in FlagArgs
    /\ Start

SpecFlag == FlagInit /\ [][Next]_vars

\* main invoked again and again in one process, with arguments that pass
\* the validation and a thread count that makes the range one batch
RepeatArgs ==
    {a \in [ip : {"v4", "v6"}, ports : PortSpecs, threads : {501},
             timeout : TimeoutInputs] :
        /\ ~ParseRaises(a.ports)
        /\ RangeOK(ParsedStart(a.ports), ParsedEnd(a.ports))}

RepeatInit ==
    /\ args \in RepeatArgs
    /\ Init

RepeatNext ==
    \/ Next
    \/ MainAgain

SpecRepeat == RepeatInit /\ [][RepeatNext]_vars

\* ------------------------------------------------- batch_ports on its own
BatchStarts == (1..MaxB) \cup ((MaxPortNumber - 2)..MaxPortNumber)

BatchInit ==
    /\ pc = "batch_in"
    /\ run = 1
    /\ args = [ip |-> "v4", ports |-> <<Tok(1)>>, threads |-> 2,
               timeout |-> Num(MinTimeout)]
    /\ listeners = [p \in {} |-> "open"]
    /\ diag = "none"
    /\ start_port \in BatchStarts
    /\ end_port \in {e \in start_port..(start_port + MaxB - 1) :
                       e <= MaxPortNumber}
    /\ max_threads \in 2..(2 * MaxBatch + 1)
    /\ timeout = Num(MinTimeout)
    /\ port_batches = << >>
    /\ futures = << >>
    /\ work_queue = << >>
    /\ idle_semaphore = 0
    /\ workers = << >>
    /\ scan_results = << >>
    /\ results_lock = 0
    /\ saved = << >>
    /\ open_ports = << >>
    /\ base = 0
    /\ probes = [p \in {} |-> 0]
    /\ connected = {}
    /\ nreturned = 0
    /\ raised = {}
    /\ reads = [p \in {} |-> "none"]

\* line 108 for any range and any batch size >= 1
BatchCall ==
    /\ pc = "batch_in"
    /\ ~BatchRaises(BatchSizeOf(max_threads))
    /\ port_batches' =
          batch_ports(start_port, end_port, BatchSizeOf(max_threads))
    /\ pc' = "batched"
    /\ UNCHANGED <<run, args, listeners, diag, mainVars, futures, work_queue,
                   idle_semaphore, workers, scan_results, results_lock,
                   outVars, histVars>>

BatchNext == BatchCall

SpecBatch == BatchInit /\ [][BatchNext]_vars

\* ------------------------------------------------------------- properties
RECURSIVE Flatten(_)
Flatten(ss) == IF ss = << >> THEN << >> ELSE Head(ss) \o Flatten(Tail(ss))

\* the records appended since fast_scan was entered
NewRecords == SubSeq(scan_results, base + 1, Len(scan_results))
NewPorts == {NewRecords[i].port : i \in 1..Len(NewRecords)}
ScanRange == DOMAIN probes

\* C1: the batches of batch_ports, concatenated in order, are exactly
\* start, start+1, ..., end; every batch but the last has batch_size ports
\* and the last has between 1 and batch_size
C1_BatchesPartitionRange ==
    pc = "batched" =>
        LET bs == BatchSizeOf(max_threads)
            n == Len(port_batches)
        IN /\ Flatten(port_batches) =
                 [i \in 1..(end_port - start_port + 1) |-> start_port + i - 1]
           /\ \A k \in 1..n :
                /\ Len(port_batches[k]) >= 1
                /\ Len(port_batches[k]) <= bs
                /\ k < n => Len(port_batches[k]) = bs

C1_Witness ==
    /\ pc = "batched"
    /\ Len(port_batches) >= 2
    /\ Len(port_batches[Len(port_batches)]) < BatchSizeOf(max_threads)

\* C2: when fast_scan has returned, the records appended during the
\* invocation are exactly the ports whose connect succeeded, each with status
\* "open", and no port that was refused, filtered or failed has a record
C2_RecordsAreTheOpenPorts ==
    pc = "scanned" =>
        /\ NewPorts = connected
        /\ \A i \in 1..Len(NewRecords) : NewRecords[i].status = "open"
        /\ \A p \in ScanRange : listeners[p] # "open" => p \notin NewPorts
        /\ \A p \in raised : p \notin NewPorts

C2_Witness ==
    /\ pc = "scanned"
    /\ \E p, q \in ScanRange :
         /\ listeners[p] = "open" /\ p \in NewPorts
         /\ listeners[q] = "refused" /\ probes[q] = 1 /\ q \notin NewPorts

\* C3: once all workers have finished, the number of records appended during
\* the scan is the number of probes that returned a record, and every one of
\* them is a well-formed record of a port of the range
C3_NoRecordLost ==
    (pc = "scanned" \/ (pc = "wait" /\ WaitOver(futures, workers))) =>
        /\ Len(scan_results) - base = nreturned
        /\ \A i \in 1..Len(NewRecords) :
             /\ NewRecords[i].port \in ScanRange
             /\ NewRecords[i].service = ServiceOf(NewRecords[i].port)

C3_Witness ==
    /\ pc = "scanned"
    /\ Len(port_batches) >= 2
    /\ nreturned >= 2
    /\ Len(NewRecords) = 2

\* C4: when fast_scan has returned and main is about to read scan_results,
\* every batch has been submitted and has completed and no worker is running
C4_ReadAfterAllWorkersDone ==
    pc = "scanned" =>
        /\ Len(futures) = Len(port_batches)
        /\ \A k \in 1..Len(futures) : futures[k] = "done"
        /\ \A w \in 1..Len(workers) : workers[w].pc = "idle"
        /\ work_queue = << >>
        /\ results_lock = 0

C4_Witness ==
    /\ pc = "scanned"
    /\ Len(futures) >= 2
    /\ scan_results # << >>

\* the inputs the validation of main is to reject, in the claim's words
MalformedSpec(fields) ==
    \/ Len(fields) \notin {1, 2}
    \/ \E i \in 1..Len(fields) : ~fields[i].numeric
InvalidInput ==
    \/ args.ip = "bad"
    \/ MalformedSpec(args.ports)
    \/ args.ports[1].val < 1
    \/ args.ports[Len(args.ports)].val > 65535
    \/ args.ports[1].val > args.ports[Len(args.ports)].val

\* C5: with an invalid address or an invalid port specification main reports
\* a diagnostic and returns without fast_scan: no batch, no worker, no probe,
\* and scan_results unchanged
C5_InvalidInputNeverScans ==
    InvalidInput =>
        /\ pc \in {"start", "ports", "range", "returned"}
        /\ pc = "returned" => diag # "none"
        /\ port_batches = << >> /\ futures = << >> /\ workers = << >>
        /\ \A p \in DOMAIN probes : probes[p] = 0
        /\ scan_results = << >>

C5_Witness ==
    /\ pc = "returned"
    /\ args.ip = "v4"
    /\ diag = "Invalid port range (1-65535)"
    /\ scan_results = << >>

\* C6: after a probe has raised an exception the scan goes on: fast_scan has
\* not failed, the port has no record, the scan can always take a step until
\* fast_scan returns, and when it returns every port of the range has been
\* probed once and every batch is done
C6_ProbeErrorNeverAborts ==
    raised # {} =>
        /\ pc \in {"submit", "wait", "scanned", "returned"}
        /\ \A p \in raised : p \notin NewPorts
        /\ pc \in {"submit", "wait"} => ENABLED Next
        /\ pc \in {"scanned", "returned"} =>
             /\ \A p \in ScanRange : probes[p] = 1
             /\ Len(futures) = Len(port_batches)
             /\ \A k \in 1..Len(futures) : futures[k] = "done"

C6_Witness ==
    /\ pc = "scanned"
    /\ \E p, q \in ScanRange :
         /\ p < q
         /\ p \in raised
         /\ q \in NewPorts
    /\ Len(port_batches) = 1

\* C7: the collection is empty when a scan invocation starts, and the
\* collection read after a second scan has the content of the one read after
\* the first
C7_FreshCollectionPerScan ==
    /\ pc \in {"submit", "wait", "scanned"} => base = 0
    /\ (run = 2 /\ pc = "scanned") =>
          Sorted(PortsOf(scan_results)) =
             Sorted(PortsOf(SubSeq(scan_results, 1, base)))

\* C8: within one invocation a batch is held by at most one worker and is
\* never taken twice, scan_port is called at most once per port, and at most
\* one record per port is appended
C8_AtMostOneProbePerPort ==
    /\ \A p \in ScanRange : probes[p] <= 1
    /\ \A i, j \in 1..Len(NewRecords) :
         NewRecords[i].port = NewRecords[j].port => i = j
    /\ \A v, w \in 1..Len(workers) :
         (workers[v].batch # 0 /\ workers[v].batch = workers[w].batch)
            => v = w
    /\ \A k \in 1..Len(futures) :
         /\ Cardinality({i \in 1..Len(work_queue) : work_queue[i] = k})
               = (IF futures[k] = "pending" THEN 1 ELSE 0)
         /\ Cardinality({w \in 1..Len(workers) : workers[w].batch = k})
               = (IF futures[k] = "running" THEN 1 ELSE 0)

C8_Witness ==
    /\ pc = "scanned"
    /\ Len(port_batches) >= 2
    /\ \E p, q \in ScanRange :
         /\ listeners[p] = "filtered" /\ probes[p] = 1 /\ p \notin NewPorts
         /\ q \in NewPorts

\* C9: for every clamped concurrency bound the batch size handed to
\* batch_ports is half of it with a minimum of 1, and partitioning succeeds
C9_BatchSizeAtLeastOne ==
    /\ pc = "call" =>
          /\ max_threads \in MinThreads..MaxThreads
          /\ BatchSizeOf(max_threads) = IMax(max_threads \div 2, 1)
          /\ BatchSizeOf(max_threads) >= 1
    /\ pc # "crashed"

\* C10: the timeout scan_port is called with lies in [0.1s, 5.0s]: values
\* below become 0.1, values above become 5.0, values inside are unchanged
C10_TimeoutClamped ==
    (\E p \in ScanRange : probes[p] > 0) =>
        /\ ~timeout.nan
        /\ MinTimeout <= timeout.v /\ timeout.v <= MaxTimeout
        /\ args.timeout.v < MinTimeout => timeout.v = MinTimeout
        /\ args.timeout.v > MaxTimeout => timeout.v = MaxTimeout
        /\ (MinTimeout <= args.timeout.v /\ args.timeout.v <= MaxTimeout)
              => timeout.v = args.timeout.v

\* worker w is inside a call of scan_port
InScanPort(w) == w <= Len(workers) /\ workers[w].pc \in {"poll", "ready"}

\* C11: every call of scan_port ends; a port that never answers gets no
\* record
C11_ScanPortTerminates ==
    /\ \A w \in 1..MaxRange : [](InScanPort(w) => <>~InScanPort(w))
    /\ [](\A p \in ScanRange : listeners[p] = "filtered" => p \notin NewPorts)

C11_Witness ==
    \E w \in 1..Len(workers) :
        /\ workers[w].pc = "for"
        /\ workers[w].port \in ScanRange
        /\ listeners[workers[w].port] = "filtered"
        /\ workers[w].port \notin raised
        /\ probes[workers[w].port] = 1

\* the records, appended or about to be, that this invocation made for port p
RecordsFor(p) ==
    {NewRecords[i] : i \in {j \in 1..Len(NewRecords) : NewRecords[j].port = p}}
       \cup {workers[w].result[1] :
               w \in {v \in 1..Len(workers) :
                        /\ workers[v].result # << >>
                        /\ workers[v].result[1].port = p}}

\* C12: when the banner read of an open port fails or times out, scan_port
\* raises nothing and returns that port's record with status "open" and
\* banner ""
C12_BannerFailureKeepsRecord ==
    \A p \in ScanRange :
        reads[p] = "failed" =>
            /\ p \notin raised
            /\ RecordsFor(p) # {}
            /\ \A r \in RecordsFor(p) : r.status = "open" /\ r.banner = ""

C12_Witness ==
    /\ pc = "scanned"
    /\ \E p \in ScanRange :
         /\ reads[p] = "failed"
         /\ ServiceOf(p) # "Unknown"
         /\ \E i \in 1..Len(NewRecords) :
              NewRecords[i].port = p /\ NewRecords[i].banner = ""

\* C13: once connect_ex has reported the refusal (the socket is back to
\* unconnected inside the poll), the poll is over: the probe is not left
\* polling with time remaining, from where it would connect again
C13_PollStopsAtRefusal ==
    \A w \in 1..Len(workers) :
        (workers[w].pc = "poll" /\ workers[w].conn = "unconnected")
            => ~PollGuard(workers[w].elapsed, timeout)

\* C14: the banner of an open port is read exactly when the port is in the
\* service table; an open port outside the table is never read and its
\* record carries the banner ""
C14_BannerReadIffKnownService ==
    \A p \in ScanRange :
        /\ reads[p] # "none" => p \in DOMAIN COMMON_PORTS
        /\ RecordsFor(p) # {} =>
              (reads[p] # "none" <=> p \in DOMAIN COMMON_PORTS)
        /\ p \notin DOMAIN COMMON_PORTS =>
              \A r \in RecordsFor(p) : r.banner = "" /\ r.service = "Unknown"

C14_Witness ==
    /\ pc = "scanned"
    /\ \E p, q \in ScanRange :
         /\ p \notin DOMAIN COMMON_PORTS /\ q \in DOMAIN COMMON_PORTS
         /\ p \in NewPorts /\ q \in NewPorts
         /\ reads[p] = "none" /\ reads[q] = "ok"

\* C15: a worker holds an open socket only inside scan_port; wherever the
\* probe ended (record, timeout, exception) the socket is closed, and once
\* the batches are done no socket is open
C15_SocketClosedOnEveryExit ==
    /\ \A w \in 1..Len(workers) :
         ~InScanPort(w) => ~workers[w].sock /\ workers[w].conn = "none"
    /\ pc \in {"scanned", "returned"} =>
         \A w \in 1..Len(workers) : ~workers[w].sock

C15_Witness ==
    /\ pc = "scanned"
    /\ \E p, q \in ScanRange :
         /\ p \in NewPorts
         /\ q \notin NewPorts /\ q \notin raised /\ probes[q] = 1
    /\ \A w \in 1..Len(workers) : ~workers[w].sock

\* the workers inside the with block of line 97
InAppend == {w \in 1..Len(workers) : workers[w].pc = "locked"}

\* C16: at most one worker is inside the append at any time, and every
\* step that changes scan_results is taken by the worker holding
\* results_lock
C16_AppendUnderLock ==
    /\ [](/\ Cardinality(InAppend) <= 1
          /\ \A w \in InAppend : results_lock = w)
    /\ [][scan_results' # scan_results =>
            /\ results_lock \in InAppend
            /\ workers'[results_lock].pc # "locked"]_vars

C16_Witness ==
    \E v, w \in 1..Len(workers) :
        /\ workers[v].pc = "locked" /\ results_lock = v
        /\ workers[w].pc = "acquire"

\* C17: whoever holds results_lock is between lines 97 and 98 with its
\* record in hand, not in a probe; the lock is taken only by a worker whose
\* scan_port has returned a record, and given up in the step that appends
\* that one record
C17_LockOnlyAroundAppend ==
    /\ [](\A w \in 1..Len(workers) :
            results_lock = w =>
               /\ ~InScanPort(w)
               /\ ~workers[w].sock
               /\ workers[w].pc = "locked"
               /\ workers[w].result # << >>)
    /\ [][/\ (results_lock = 0 /\ results_lock' # 0) =>
               /\ workers[results_lock'].pc = "acquire"
               /\ UNCHANGED scan_results
          /\ (results_lock # 0 /\ results_lock' # results_lock) =>
               /\ results_lock' = 0
               /\ scan_results' =
                     Append(scan_results, workers[results_lock].result[1])
          /\ (results_lock # 0 /\ results_lock' = results_lock) =>
               workers'[results_lock] = workers[results_lock]]_vars

C17_Witness ==
    \E v, w \in 1..Len(workers) :
        /\ results_lock = v /\ workers[v].pc = "locked"
        /\ workers[w].pc = "poll" /\ workers[w].sock

\* the batches a thread of the pool is executing
Running == {k \in 1..Len(futures) : futures[k] = "running"}
OpenSockets == {w \in 1..Len(workers) : workers[w].sock}

\* C18: never more than max_threads batches are executing and never more
\* than max_threads sockets are open, however many batches were submitted;
\* a batch no thread has taken is still in the executor's queue
C18_ConcurrencyBounded ==
    pc \in {"submit", "wait"} =>
        /\ Len(workers) <= max_threads
        /\ Cardinality(Running) <= max_threads
        /\ Cardinality(OpenSockets) <= max_threads
        /\ \A k \in 1..Len(futures) :
              futures[k] = "pending" =>
                 \E i \in 1..Len(work_queue) : work_queue[i] = k

C18_Witness ==
    /\ pc = "wait"
    /\ Len(port_batches) > max_threads
    /\ Cardinality(Running) = max_threads
    /\ Cardinality(OpenSockets) = max_threads
    /\ \E k \in 1..Len(futures) : futures[k] = "pending"

\* C19: under fair scheduling of the main thread and the pool's threads,
\* fast_scan, once called with a valid range and a clamped concurrency
\* bound, returns with every batch executed and every port probed
C19_FastScanReturns ==
    (pc = "call") ~>
        /\ pc = "scanned"
        /\ Len(futures) = Len(port_batches)
        /\ AllDone
        /\ \A p \in start_port..end_port : p \in ScanRange /\ probes[p] >= 1

\* what a finished scan did: its probes, its banner reads, its records
Observed ==
    [probes  |-> probes,
     reading |-> {p \in ScanRange : reads[p] # "none"},
     records |-> {[port |-> NewRecords[i].port,
                   service |-> NewRecords[i].service,
                   banner |-> NewRecords[i].banner] :
                     i \in 1..Len(NewRecords)}]

\* the same, worked out from the range and from what the network did (the
\* connects that completed, what each recv gave) and from nothing else
Determined ==
    [probes  |-> [p \in start_port..end_port |-> 1],
     reading |-> {p \in connected : p \in DOMAIN COMMON_PORTS},
     records |-> {[port |-> p,
                   service |-> ServiceOf(p),
                   banner |-> IF reads[p] = "ok" THEN "READY" ELSE ""] :
                     p \in connected}]

====
